---- MODULE Spec2Model ----
(***************************************************************************)
(* DocuMind: extraction of PAN / Aadhaar card details through a vision     *)
(* model.  The module models the single-document pipeline                  *)
(* (app/services/extractor.py, app/services/validator.py), the upload      *)
(* staging and the single-document endpoints                               *)
(* (app/api/endpoints/extract.py) and the two batch endpoints              *)
(* (app/api/endpoints/batch.py) running on one asyncio event loop.         *)
(* Five specifications: Spec (a batch request), SpecPipeline (one call of  *)
(* extract_from_image), SpecSingle (a single-document request),            *)
(* SpecValidator and SpecParser (the validator and the answer parser       *)
(* applied to bounded inputs).                                             *)
(*                                                                         *)
(* Texts are sequences of tokens: one token is one character, or one       *)
(* indivisible word ("null", "json", a field name), or a code fence (three  *)
(* backticks).                                                             *)
(* Error messages are sequences of message fragments.                      *)
(***************************************************************************)
EXTENDS Integers, Sequences, FiniteSets, Bags, TLC

\* ------------------------------------------------------------------ bounds

\* Longest heterogeneous batch a client submits.
MaxFiles == 2

\* Health checks a monitor sends while a request is served.
MaxHealthChecks == 1

\* Calls of extract_from_image a caller makes in a row, and the seconds
\* that pass meanwhile.
MaxCalls == 2
MaxClock == 1

\* ------------------------------------------------------- program constants

\* batch.py: "if len(files) > 50"
MAX_BATCH_FILES == 50

\* config.py: MAX_FILE_SIZE (bytes)
MAX_FILE_SIZE == 10485760

\* ------------------------------------------------------------- Python bits

\* None; json.loads decodes null to it.
None == [t |-> "null"]

\* s[a:b] of Python for a >= 0; a negative b counts from the end.
PySlice(s, a, b) ==
    LET e  == IF b < 0 THEN Len(s) + b ELSE IF b > Len(s) THEN Len(s) ELSE b
        a0 == IF a > Len(s) THEN Len(s) ELSE a
    IN  IF e <= a0 THEN <<>> ELSE SubSeq(s, a0 + 1, e)

\* s.find(pat, start): 0-based index of the first occurrence at or after
\* start, -1 when there is none.
PyFind(s, pat, start) ==
    LET hits == { i \in start .. (Len(s) - Len(pat)) :
                    SubSeq(s, i + 1, i + Len(pat)) = pat }
    IN  IF hits = {} THEN -1 ELSE CHOOSE i \in hits : \A j \in hits : i <= j

\* s.rfind(pat): 0-based index of the last occurrence, -1 when none.
PyRFind(s, pat) ==
    LET hits == { i \in 0 .. (Len(s) - Len(pat)) :
                    SubSeq(s, i + 1, i + Len(pat)) = pat }
    IN  IF hits = {} THEN -1 ELSE CHOOSE i \in hits : \A j \in hits : i >= j

PyContains(s, pat) == PyFind(s, pat, 0) >= 0

Whitespace == {" ", "\n", "\t"}

\* str.strip()
PyStrip(s) ==
    LET keep == { i \in 1 .. Len(s) : s[i] \notin Whitespace }
    IN  IF keep = {} THEN <<>>
        ELSE SubSeq(s, CHOOSE i \in keep : \A j \in keep : i <= j,
                       CHOOSE i \in keep : \A j \in keep : i >= j)

\* str.replace(c, "") for a one-character c
PyRemove(s, c) == SelectSeq(s, LAMBDA x : x # c)

LowerLetters == {"a", "b"}
UpperLetters == {"A", "B", "X"}
Digits == {"0", "1", "2"}

\* str.upper(), character by character
UpperChar(c) == IF c = "a" THEN "A" ELSE IF c = "b" THEN "B" ELSE c
PyUpper(s) == [i \in 1 .. Len(s) |-> UpperChar(s[i])]

\* ------------------------------------------------------------- JSON values

JNull == None
JTrue == [t |-> "true"]
JNum(d) == [t |-> "num", digits |-> d]
JStr(s) == [t |-> "str", s |-> s]
JArr(items) == [t |-> "arr", items |-> items]
\* An object is its members in insertion order, keys unique.
JObj(m) == [t |-> "obj", m |-> m]

HasKey(m, k) == \E i \in 1 .. Len(m) : m[i][1] = k
GetKey(m, k) == m[CHOOSE i \in 1 .. Len(m) : m[i][1] = k][2]
\* d[k] = v of a dict: replaces in place, or appends
PutKey(m, k, v) ==
    IF HasKey(m, k)
    THEN [i \in 1 .. Len(m) |-> IF m[i][1] = k THEN <<k, v>> ELSE m[i]]
    ELSE Append(m, <<k, v>>)

\* Python truthiness of a decoded JSON value
Truthy(v) ==
    CASE v.t = "null" -> FALSE
      [] v.t = "true" -> TRUE
      [] v.t = "num"  -> \E i \in 1 .. Len(v.digits) : v.digits[i] # "0"
      [] v.t = "str"  -> v.s # <<>>
      [] v.t = "arr"  -> v.items # <<>>
      [] v.t = "obj"  -> v.m # <<>>

\* ------------------------------------------------------ json.loads (decoder)

\* Results of the decoder's productions: ok, the value, the next position.
Fail == [ok |-> FALSE]
Got(v, n) == [ok |-> TRUE, v |-> v, next |-> n]

SkipWs(s, i) ==
    LET stop == { j \in i .. Len(s) : s[j] \notin Whitespace }
    IN  IF stop = {} THEN Len(s) + 1 ELSE CHOOSE j \in stop : \A k \in stop : j <= k

\* A string literal: from the quote at i to the next quote; a raw newline
\* or tab inside it is a control character the decoder rejects.
ParseString(s, i) ==
    LET close == { j \in (i + 1) .. Len(s) : s[j] = "\"" }
    IN  IF i > Len(s) \/ s[i] # "\"" \/ close = {} THEN Fail
        ELSE LET j == CHOOSE j \in close : \A k \in close : j <= k
                 body == SubSeq(s, i + 1, j - 1)
             IN  IF \E k \in 1 .. Len(body) : body[k] \in {"\n", "\t"}
                 THEN Fail ELSE Got(JStr(body), j + 1)

ParseNumber(s, i) ==
    LET stop == { j \in i .. Len(s) : s[j] \notin Digits }
        e    == IF stop = {} THEN Len(s) + 1
                ELSE CHOOSE j \in stop : \A k \in stop : j <= k
    IN  IF e = i THEN Fail
        \* a leading zero is followed by no further digit
        ELSE IF s[i] = "0" /\ e > i + 1 THEN Got(JNum(<<"0">>), i + 1)
        ELSE Got(JNum(SubSeq(s, i, e - 1)), e)

RECURSIVE ParseValue(_, _), ParseItems(_, _, _), ParseMembers(_, _, _)

ParseValue(s, i) ==
    IF i > Len(s) THEN Fail
    ELSE CASE s[i] = "null" -> Got(JNull, i + 1)
           [] s[i] = "true" -> Got(JTrue, i + 1)
           [] s[i] = "\""   -> ParseString(s, i)
           [] s[i] \in Digits -> ParseNumber(s, i)
           [] s[i] = "["    ->
                LET j == SkipWs(s, i + 1)
                IN  IF j <= Len(s) /\ s[j] = "]" THEN Got(JArr(<<>>), j + 1)
                    ELSE ParseItems(s, j, <<>>)
           [] s[i] = "{"    ->
                LET j == SkipWs(s, i + 1)
                IN  IF j <= Len(s) /\ s[j] = "}" THEN Got(JObj(<<>>), j + 1)
                    ELSE ParseMembers(s, j, <<>>)
           [] OTHER -> Fail

\* value ("," value)* "]"
ParseItems(s, i, acc) ==
    LET r == ParseValue(s, i)
    IN  IF ~r.ok THEN Fail
        ELSE LET j == SkipWs(s, r.next)
             IN  IF j > Len(s) THEN Fail
                 ELSE IF s[j] = "]" THEN Got(JArr(Append(acc, r.v)), j + 1)
                 ELSE IF s[j] = ","
                      THEN ParseItems(s, SkipWs(s, j + 1), Append(acc, r.v))
                 ELSE Fail

\* string ":" value ("," string ":" value)* "}"
ParseMembers(s, i, acc) ==
    LET k == ParseString(s, i)
    IN  IF ~k.ok THEN Fail
        ELSE LET c == SkipWs(s, k.next)
             IN  IF c > Len(s) \/ s[c] # ":" THEN Fail
                 ELSE LET r == ParseValue(s, SkipWs(s, c + 1))
                      IN  IF ~r.ok THEN Fail
                          ELSE LET j   == SkipWs(s, r.next)
                                   new == PutKey(acc, k.v.s, r.v)
                               IN  IF j > Len(s) THEN Fail
                                   ELSE IF s[j] = "}" THEN Got(JObj(new), j + 1)
                                   ELSE IF s[j] = ","
                                        THEN ParseMembers(s, SkipWs(s, j + 1), new)
                                   ELSE Fail

\* An operation's outcome: a returned value or a raised exception.
Return(v) == [raised |-> FALSE, val |-> v]
Raise(type, msg) == [raised |-> TRUE, exc |-> [type |-> type, msg |-> msg]]

\* json.loads(text): the single JSON value of the text, JSONDecodeError
\* when the text is not exactly one value.
json_loads(text) ==
    LET r == ParseValue(text, SkipWs(text, 1))
    IN  IF r.ok /\ SkipWs(text, r.next) = Len(text) + 1
        THEN Return(r.v)
        ELSE Raise("JSONDecodeError", <<"Expecting value">>)

\* ------------------------------------------------- app/services/validator.py

\* The "$" that closes both patterns of re.match: the end of the string,
\* or the position before a newline that ends the string.
MatchesEnd(s, n) == Len(s) = n \/ (Len(s) = n + 1 /\ s[n + 1] = "\n")

IsPanPattern(s) ==
    /\ MatchesEnd(s, 10)
    /\ \A i \in 1 .. 5 : s[i] \in UpperLetters
    /\ \A i \in 6 .. 9 : s[i] \in Digits
    /\ s[10] \in UpperLetters

\* validate_pan_format(pan_number)[0]
validate_pan_format(pan_number) ==
    IF pan_number = <<>> THEN FALSE
    ELSE IsPanPattern(PyUpper(PyStrip(pan_number)))

\* validate_aadhaar_format(aadhaar_number)[0]
validate_aadhaar_format(aadhaar_number) ==
    IF aadhaar_number = <<>> THEN FALSE
    ELSE LET cleaned == PyRemove(PyRemove(PyStrip(aadhaar_number), " "), "-")
         IN  /\ MatchesEnd(cleaned, 12)
             /\ \A i \in 1 .. 12 : cleaned[i] \in Digits \cup {"X"}
             /\ cleaned # [i \in 1 .. 12 |-> "X"]

\* clean_pan_number without its upper()
clean_pan_number_as_typed(pan_number) ==
    IF pan_number = <<>> THEN <<>>
    ELSE PyRemove(PyStrip(pan_number), " ")

clean_pan_number(pan_number) ==
    IF pan_number = <<>> THEN <<>>
    ELSE PyRemove(PyUpper(PyStrip(pan_number)), " ")

clean_aadhaar_number(aadhaar_number) ==
    IF aadhaar_number = <<>> THEN <<>>
    ELSE LET cleaned == PyRemove(PyRemove(PyStrip(aadhaar_number), " "), "-")
         IN  IF Len(cleaned) = 12
             THEN SubSeq(cleaned, 1, 4) \o <<" ">> \o SubSeq(cleaned, 5, 8)
                  \o <<" ">> \o SubSeq(cleaned, 9, 12)
             ELSE cleaned

JBool(b) == [t |-> "bool", b |-> b]

\* The identifying-number branch of validate_extracted_data for one
\* document type: field is the number's key, flag the *_valid key.
ValidateNumber(m, field, flag, document_type) ==
    IF HasKey(m, field) /\ Truthy(GetKey(m, field))
    THEN LET v == GetKey(m, field)
         IN  IF v.t # "str"
             THEN Raise("AttributeError", <<"object has no attribute 'strip'">>)
             ELSE LET number == IF document_type = "pan"
                                THEN clean_pan_number(v.s)
                                ELSE clean_aadhaar_number(v.s)
                      is_valid == IF document_type = "pan"
                                  THEN validate_pan_format(number)
                                  ELSE validate_aadhaar_format(number)
                  IN  Return(JObj(PutKey(PutKey(m, field, JStr(number)),
                                         flag, JBool(is_valid))))
    ELSE Return(JObj(PutKey(m, flag, JBool(FALSE))))

\* validate_extracted_data(data, document_type); data is whatever the
\* parser returned.
validate_extracted_data(data, document_type) ==
    IF data.t \notin {"obj", "arr"}
    THEN Raise("AttributeError", <<"object has no attribute 'copy'">>)
    ELSE IF document_type \notin {"pan", "aadhaar"} THEN Return(data)
    ELSE IF data.t = "arr"
    THEN Raise("TypeError", <<"list indices must be integers or slices, not str">>)
    ELSE IF document_type = "pan"
    THEN ValidateNumber(data.m, <<"pan_number">>, <<"pan_valid">>, "pan")
    ELSE ValidateNumber(data.m, <<"aadhaar_number">>, <<"aadhaar_valid">>, "aadhaar")

\* ----------------------------------------------------- app/utils/prompts.py

PyLower(w) == IF w = "PAN" THEN "pan" ELSE w

get_extraction_prompt(document_type) ==
    CASE PyLower(document_type) = "pan"     -> "PAN_EXTRACTION_PROMPT"
      [] PyLower(document_type) = "aadhaar" -> "AADHAAR_EXTRACTION_PROMPT"
      [] OTHER -> ""

\* -------------------------------------------------------------------- state

VARIABLES
    settings,          \* app.core.config.settings: the processing switches
    extractor,         \* the global DocumentExtractor: SDK importable, model set
    upload_folder,     \* the files now in settings.UPLOAD_FOLDER (a bag)
    uuids,             \* how many uuid4 names save_upload_file has drawn
    batch,             \* the batch the client submits: files, document_type
    request,           \* the endpoint now being served, "none" when idle
    pc,                \* where the handler of the request stands
    save_tasks,        \* batch_extract_async: save coroutines not yet completed
    file_paths,        \* handler local: (file_path, filename) of staged files
    saved_paths,       \* batch_extract_async local: per completed save task
    extraction_tasks,  \* batch_extract_async: pipeline runs not yet started
    in_flight,         \* pipeline runs waiting for the model's answer
    results,           \* handler local: the ExtractionResults so far
    results_src,       \* history: the upload each entry of results is about
    saved_src,         \* history: the upload each entry of saved_paths is about
    next_file,         \* batch_extract: position of the loop over files
    staged,            \* calls of save_upload_file made for the request
    runs,              \* calls of extract_from_image made for the request
    responses,         \* per endpoint, the HTTP response the client received
    call,              \* a direct call of extract_from_image, and its outcome
    single,            \* a request to a single-document endpoint, and its course
    output_folder,     \* the files now in settings.OUTPUT_FOLDER, name and content
    disk,              \* whether files can be written to the disk that holds
                       \* the upload and output folders: "ok" or "full"
    clock,             \* the second datetime.now() falls in
    validation,        \* a direct use of the validator: input and outcomes
    parsing,           \* a direct use of the answer parser: input and outcome
    queries,           \* history: the calls of self.model.query made so far
    health             \* the health checks answered so far

vars == <<settings, extractor, upload_folder, uuids, batch, request, pc,
          save_tasks, file_paths, saved_paths, extraction_tasks, in_flight,
          results, results_src, saved_src, next_file, staged, runs,
          responses, call, single, output_folder, disk, clock,
                   validation, parsing, queries, health>>

\* ------------------------------------------- DocumentExtractor (extractor.py)

\* The three-backtick fence marker, one token.
FENCE == "FENCE"

\* One of the fallbacks: the slice is decoded, JSONDecodeError propagates.
_parse_json_response(response_text) ==
    LET direct == json_loads(response_text)
    IN  IF ~direct.raised THEN direct
        ELSE IF PyContains(response_text, <<FENCE, "json">>)
        THEN LET json_start == PyFind(response_text, <<FENCE, "json">>, 0) + 2
                 json_end   == PyFind(response_text, <<FENCE>>, json_start)
             IN  json_loads(PyStrip(PySlice(response_text, json_start, json_end)))
        ELSE IF PyContains(response_text, <<FENCE>>)
        THEN LET json_start == PyFind(response_text, <<FENCE>>, 0) + 1
                 json_end   == PyFind(response_text, <<FENCE>>, json_start)
             IN  json_loads(PyStrip(PySlice(response_text, json_start, json_end)))
        ELSE IF PyContains(response_text, <<"{">>) /\ PyContains(response_text, <<"}">>)
        THEN LET json_start == PyFind(response_text, <<"{">>, 0)
                 json_end   == PyRFind(response_text, <<"}">>) + 1
             IN  json_loads(PySlice(response_text, json_start, json_end))
        ELSE Raise("ValueError", <<"Could not parse JSON from response">>)

\* extractor.py: answer_preview = answer_text[:500]
PREVIEW_CHARS == 500

\* Fragments of exception texts in which "connect" occurs (any case).
ConnectFragments == {"Connection refused", "HTTPConnectionPool: Read timed out."}
MentionsConnect(msg) == \E i \in 1 .. Len(msg) : msg[i] \in ConnectFragments

TRACEBACK == "Traceback (most recent call last): ..."

\* The answer text _call_moondream_api takes out of the SDK's result.
AnswerText(result) ==
    IF result.key \in {"answer", "response", "text", "content"}
    THEN result.value
    \* str(result) of a dict with none of the known keys
    ELSE JStr(<<"{", "'", result.key, "'", ":", " ", "1", "}">>)

\* The try block of _call_moondream_api: Image.open, model.query, the
\* extraction of the answer text, _parse_json_response.
CallBody(image) ==
    IF ~image.exists
    THEN Raise("FileNotFoundError", <<"No such file or directory">>)
    ELSE IF ~image.opens
    THEN Raise("UnidentifiedImageError", <<"cannot identify image file">>)
    ELSE IF image.reply.kind = "raise"
    THEN Raise("Exception", <<"Error calling Moondream API: ">> \o image.reply.msg)
    ELSE LET answer_text == AnswerText(image.reply)
         IN  IF answer_text = None \/ ~Truthy(answer_text)
             THEN Raise("Exception", <<"No response received from Moondream model">>)
             ELSE IF answer_text.t # "str"
             THEN Raise("TypeError", <<"the JSON object must be str, bytes or bytearray">>)
             ELSE _parse_json_response(answer_text.s)

\* The except clauses of _call_moondream_api, in their order.
CallHandlers(image, r) ==
    IF ~r.raised THEN r
    ELSE IF r.exc.type = "FileNotFoundError"
    THEN Raise("Exception", <<"Image file not found: ", "image_path">>)
    ELSE IF r.exc.type = "KeyError"
    THEN Raise("Exception",
               <<"Unexpected response format from Moondream: missing key ">>
               \o r.exc.msg)
    ELSE IF r.exc.type = "JSONDecodeError"
    THEN Raise("Exception",
               <<"Failed to parse JSON from Moondream response. Response text: ">>
               \o PySlice(AnswerText(image.reply).s, 0, PREVIEW_CHARS) \o <<"...">>)
    ELSE IF MentionsConnect(r.exc.msg)
    THEN Raise("Exception", <<"Cannot connect to Moondream Station. ",
                              "Please ensure it's running at ", "endpoint",
                              "\nStart it with: moondream-station">>)
    ELSE Raise("Exception", <<"Error calling Moondream API: ">> \o r.exc.msg
                            \o <<"\n\nFull trace:\n", TRACEBACK>>)

_call_moondream_api(image) ==
    IF ~extractor.available
    THEN Raise("Exception", <<"Moondream package not installed. ",
                              "Install with: pip install moondream">>)
    ELSE IF ~extractor.model_ready
    THEN Raise("Exception", <<"Moondream model not initialized. ",
                              "Please ensure Moondream Station is running at ",
                              "endpoint">>)
    ELSE CallHandlers(image, CallBody(image))

\* The try block of _save_extraction_result: mkdir, the output file's
\* name, open and json.dump.
SaveResultBody(result, filename) ==
    IF disk = "ok" THEN Return(None)
    ELSE Raise("OSError", <<"No space left on device">>)

\* The handler were it to let the failure of the write through.
SaveResultHandler_reraise(r) == r

\* "except Exception as e: print(...)": logged, and the function ends
SaveResultHandler(r) == Return(None)

_save_extraction_result(result, filename) ==
    SaveResultHandler(SaveResultBody(result, filename))

\* output_dir / (base_name + "_" + timestamp + ".json")
OutputFile(filename) ==
    [base_name |-> IF filename = None \/ filename.stem = ""
                   THEN "extraction" ELSE filename.stem,
     timestamp |-> clock]

\* open(output_file, "w") and json.dump: the file of that name holds the
\* result, whatever it held before.
WriteFile(folder, name, content) ==
    { f \in folder : f.name # name } \cup {[name |-> name, content |-> content]}

\* The output folder after _save_extraction_result(result, filename)
Persisted(folder, result, filename) ==
    IF SaveResultBody(result, filename).raised THEN folder
    ELSE WriteFile(folder, OutputFile(filename), result)

\* The output folder after a run of extract_from_image that ended with
\* outcome: only the success path reaches "Save extracted data if
\* configured".
OutputAfter(folder, outcome, filename) ==
    IF ~outcome.raised /\ outcome.val.status = "success"
       /\ settings.SAVE_EXTRACTED_DATA
    THEN Persisted(folder, outcome.val, filename)
    ELSE folder

\* "if settings.SAVE_EXTRACTED_DATA: await self._save_extraction_result(...)"
\* and "return response"
SaveAndReturn(response, original_filename) ==
    LET saved == IF settings.SAVE_EXTRACTED_DATA
                 THEN _save_extraction_result(response, original_filename)
                 ELSE Return(None)
    IN  IF saved.raised THEN saved ELSE Return(response)

\* "Build response": the success result made of the data.  The timing
\* fields of the metadata (processed_at, processing_time_ms) are left out.
BuildResponse(v, image, document_type, original_filename) ==
    IF v.raised THEN v
    ELSE SaveAndReturn(
             [status |-> "success",
              document_type |-> document_type,
              data |-> v.val,
              metadata |-> [model_version |-> "moondream2",
                            original_filename |-> original_filename,
                            file_size_bytes |-> image.size]],
             original_filename)

\* "Validate and clean extracted data", by the settings' switches
ValidateStep(api, image, document_type, original_filename) ==
    IF api.raised THEN api
    ELSE BuildResponse(IF settings.VALIDATE
                       THEN validate_extracted_data(api.val, document_type)
                       ELSE api,
                       image, document_type, original_filename)

\* The try block were it to look for the image file before the prompt.
ExtractBody_image_first(image, document_type, original_filename) ==
    IF ~image.exists
    THEN Raise("FileNotFoundError", <<"Image file not found: ", "image_path">>)
    ELSE IF get_extraction_prompt(document_type) = ""
    THEN Raise("ValueError", <<"Unknown document type: ", document_type>>)
    ELSE ValidateStep(_call_moondream_api(image),
                      image, document_type, original_filename)

\* The try block of extract_from_image: the prompt, the image file, the
\* model call, and the steps that follow it.
ExtractBody(image, document_type, original_filename) ==
    IF get_extraction_prompt(document_type) = ""
    THEN Raise("ValueError", <<"Unknown document type: ", document_type>>)
    ELSE IF ~image.exists
    THEN Raise("FileNotFoundError", <<"Image file not found: ", "image_path">>)
    ELSE ValidateStep(_call_moondream_api(image),
                      image, document_type, original_filename)

\* The handler were it to catch only what extract_from_image raises itself.
ExtractHandler_narrow(r, document_type, original_filename) ==
    IF ~r.raised \/ r.exc.type \notin {"ValueError", "FileNotFoundError"} THEN r
    ELSE Return([status |-> "error",
                 document_type |-> document_type,
                 data |-> None,
                 metadata |-> [original_filename |-> original_filename],
                 error |-> r.exc.msg])

\* "except Exception as e" of extract_from_image
ExtractHandler(r, document_type, original_filename) ==
    IF ~r.raised THEN r
    ELSE Return([status |-> "error",
                 document_type |-> document_type,
                 data |-> None,
                 metadata |-> [original_filename |-> original_filename],
                 error |-> r.exc.msg])

extract_from_image(image, document_type, original_filename) ==
    ExtractHandler(ExtractBody(image, document_type, original_filename),
                   document_type, original_filename)

\* Whether a run gets as far as model.query, where it waits for the answer.
QueriesModel(image, document_type) ==
    /\ get_extraction_prompt(document_type) # ""
    /\ image.exists
    /\ extractor.available
    /\ extractor.model_ready
    /\ image.opens

\* ------------------------------------------- app/api/endpoints/extract.py

\* config.py: ALLOWED_EXTENSIONS
ALLOWED_EXTENSIONS == {"jpg", "jpeg", "png", "pdf"}

\* A file name is its stem and its extension; ext = "" when it has no dot.
NoFilename == [stem |-> "", ext |-> ""]
LowerExt(e) == IF e = "TXT" THEN "txt" ELSE IF e = "JPG" THEN "jpg" ELSE e

allowed_file(filename) ==
    filename.ext # "" /\ LowerExt(filename.ext) \in ALLOWED_EXTENSIONS

\* raise HTTPException(status_code, detail); str() of it is "status: detail"
HTTPException(status_code, detail) ==
    [raised |-> TRUE,
     exc |-> [type |-> "HTTPException", status_code |-> status_code,
              detail |-> detail, msg |-> <<status_code, ": ">> \o detail]]

\* The try block of save_upload_file: read, size check, write.
SaveBody(upload_file, file_path) ==
    IF ~upload_file.readable THEN Raise("OSError", <<"read failed">>)
    ELSE IF upload_file.image.size > MAX_FILE_SIZE
    THEN HTTPException("400", <<"File too large. Maximum size: ", "MAX_FILE_SIZE", " bytes">>)
    ELSE IF disk = "full" THEN Raise("OSError", <<"No space left on device">>)
    ELSE Return(file_path)

\* Whether the try block got as far as "with open(file_path, 'wb')", which
\* creates the file before the write can fail.
OpensFile(upload_file) ==
    /\ upload_file.readable
    /\ upload_file.image.size <= MAX_FILE_SIZE

\* "except Exception as e" of save_upload_file
SaveHandler(r) ==
    IF ~r.raised THEN r
    ELSE HTTPException("500", <<"Error saving file: ">> \o r.exc.msg)

\* save_upload_file(upload_file).  The file it writes is known by its
\* suffix and its content; the uuid4 stem keeps two files of one content
\* apart, which the folder does by counting them.
save_upload_file(upload_file) ==
    IF upload_file.filename = NoFilename
    THEN HTTPException("400", <<"No filename provided">>)
    ELSE IF ~allowed_file(upload_file.filename)
    THEN HTTPException("400", <<"File type not allowed. Allowed types: ",
                                "['jpg', 'jpeg', 'png', 'pdf']">>)
    ELSE SaveHandler(SaveBody(upload_file,
             [suffix |-> upload_file.filename.ext, upload |-> upload_file]))

\* The upload folder after save_upload_file(upload_file): the new file on
\* success; on an exception of the try block, "if file_path.exists():
\* file_path.unlink()" takes away what open() created.
FolderAfterSave(folder, upload_file) ==
    LET file_path == [suffix |-> upload_file.filename.ext, upload |-> upload_file]
    IN  IF upload_file.filename = NoFilename \/ ~allowed_file(upload_file.filename)
        THEN folder
        ELSE IF ~SaveBody(upload_file, file_path).raised
        THEN folder (+) SetToBag({file_path})
        ELSE IF OpensFile(upload_file)
        THEN (folder (+) SetToBag({file_path})) (-) SetToBag({file_path})
        ELSE folder

\* cleanup_file that leaves the file where it is
cleanup_file_kept(folder, file_path) == folder

\* cleanup_file(file_path) applied to the folder
cleanup_file(folder, file_path) ==
    IF settings.DELETE_UPLOADED_FILES
    THEN folder (-) SetToBag({file_path})
    ELSE folder

RECURSIVE CleanupAll(_, _)
\* "for file_path, _ in file_paths: cleanup_file(file_path)"
CleanupAll(folder, paths) ==
    IF paths = <<>> THEN folder
    ELSE CleanupAll(cleanup_file(folder, paths[1][1]), Tail(paths))

\* --------------------------------------------- app/api/endpoints/batch.py

Endpoints == {"extract", "extract_async"}

\* The request as it would pass were the files field optional.
RequestValidation_absent(files) == None

\* FastAPI's check of "files: List[UploadFile] = File(...)": a request
\* without any file part lacks a required field.
RequestValidation(files) ==
    IF Len(files) = 0
    THEN [http |-> 422, detail |-> <<"Field required">>]
    ELSE None

\* The guards with the size test one file late.
BatchGuard_late(files) ==
    IF files = <<>>
    THEN [http |-> 400, detail |-> <<"No files provided">>]
    ELSE IF Len(files) > MAX_BATCH_FILES + 1
    THEN [http |-> 400, detail |-> <<"Too many files. Maximum 50 files per batch">>]
    ELSE None

\* The two guards that open both handlers.
BatchGuard(files) ==
    IF files = <<>>
    THEN [http |-> 400, detail |-> <<"No files provided">>]
    ELSE IF Len(files) > MAX_BATCH_FILES
    THEN [http |-> 400, detail |-> <<"Too many files. Maximum 50 files per batch">>]
    ELSE None

\* The error entry both handlers build for an item
ErrorResult(document_type, filename, error) ==
    [status |-> "error",
     document_type |-> document_type,
     data |-> None,
     metadata |-> [original_filename |-> filename],
     error |-> error]

\* "try: result = await ...extract_from_image(...) / except Exception as e"
AwaitExtraction(r, document_type, filename) ==
    IF r.raised THEN ErrorResult(document_type, filename, r.exc.msg)
    ELSE r.val

\* The handler without its "Add errors from file saving" loop.
SavingErrors_dropped(saved, document_type) == <<>>

RECURSIVE SavingErrors(_, _)
\* "for item in saved_paths: if len(item) == 3: results.append(...)"
SavingErrors(saved, document_type) ==
    IF saved = <<>> THEN <<>>
    ELSE IF Len(saved[1]) = 3
    THEN <<ErrorResult(document_type, saved[1][2], saved[1][3])>>
         \o SavingErrors(Tail(saved), document_type)
    ELSE SavingErrors(Tail(saved), document_type)

\* The uploads behind the entries SavingErrors adds, in the same order.
SavingErrorsSrc(saved, src) ==
    LET idx == { i \in 1 .. Len(saved) : Len(saved[i]) = 3 }
        F[i \in 0 .. Len(saved)] ==
            IF i = 0 THEN <<>>
            ELSE IF i \in idx THEN Append(F[i - 1], src[i]) ELSE F[i - 1]
    IN  F[Len(saved)]

Successful(rs) == Cardinality({ i \in 1 .. Len(rs) : rs[i].status = "success" })

\* The status with the two tests in the other order.
OverallStatus_partial_first(rs) ==
    IF Successful(rs) > 0 THEN "partial"
    ELSE IF Successful(rs) = Len(rs) THEN "success"
    ELSE "error"

\* "Determine overall status"
OverallStatus(rs) ==
    IF Successful(rs) = Len(rs) THEN "success"
    ELSE IF Successful(rs) > 0 THEN "partial"
    ELSE "error"

\* What pydantic accepts as one ExtractionResponse of the results list.
ValidExtractionResponse(r) ==
    /\ r.status \in {"success", "error"}
    /\ r.document_type \in {"pan", "aadhaar"}
    /\ r.data = None \/ r.data.t = "obj"

\* "return BatchExtractionResponse(...)": the 200 response, or the 500 of
\* the validation error the constructor raises.
BatchResponse(rs) ==
    IF \A i \in 1 .. Len(rs) : ValidExtractionResponse(rs[i])
    THEN [http |-> 200,
          body |-> [status |-> OverallStatus(rs),
                    total_documents |-> Len(rs),
                    successful |-> Successful(rs),
                    failed |-> Len(rs) - Successful(rs),
                    results |-> rs]]
    ELSE [http |-> 500, detail |-> <<"Internal server error">>]

\* ----------------------------------------------------------------- inputs

Q == "\""

\* Texts the vision model answers with.
PanJson == <<"{", Q, "pan_number", Q, ":", Q,
             "a", "b", "A", "B", "A", " ", "1", "2", "1", "2", "A", Q, "}">>
AadhaarJson == <<"{", Q, "aadhaar_number", Q, ":", Q,
                 "1", "2", "1", "2", "-", "X", "X", "X", "X", "-",
                 "1", "2", "1", "2", Q, "}">>
FencedJson == <<"Here", " ", FENCE, "json", "\n">> \o PanJson \o <<"\n", FENCE>>
ProseText == <<"I", " ", "see", " ", "no", " ", "card">>

TextReply(text) == [kind |-> "dict", key |-> "answer", value |-> JStr(text)]

\* What self.model.query does for an image: the dict it returns (the key
\* that holds the answer, and the answer) or the exception it raises.
Replies ==
    { TextReply(PanJson), TextReply(AadhaarJson), TextReply(FencedJson),
      TextReply(ProseText), TextReply(<<"null">>), TextReply(<<"[", "]">>),
      \* a fenced block that is no JSON, longer than the preview of an error
      TextReply(<<FENCE>> \o [i \in 1 .. PREVIEW_CHARS |-> "x"]),
      TextReply(<<"{", "}">>), TextReply(<<>>),
      [kind |-> "dict", key |-> "answer", value |-> None],
      [kind |-> "dict", key |-> "answer", value |-> JObj(<<>>)],
      [kind |-> "dict", key |-> "response", value |-> JStr(PanJson)],
      [kind |-> "dict", key |-> "result", value |-> JStr(PanJson)],
      [kind |-> "raise", msg |-> <<"HTTPConnectionPool: Read timed out.">>],
      [kind |-> "raise", msg |-> <<"Connection refused">>],
      [kind |-> "raise", msg |-> <<"Expecting value">>] }

\* An image file as the pipeline meets it: still on disk, readable by PIL,
\* its size, and the model's reply to it.
Image(exists, opens, reply) ==
    [exists |-> exists, opens |-> opens, size |-> 2048, reply |-> reply]

Images == { Image(e, o, r) : e \in BOOLEAN, o \in BOOLEAN, r \in Replies }

Name(stem, ext) == [stem |-> stem, ext |-> ext]

Upload(filename, image) == [filename |-> filename, readable |-> TRUE, image |-> image]

\* The uploads a batch is made of: a card that extracts, a model timeout,
\* a wrong file type, a file over the size limit, an image gone from the
\* disk, and two answers that are JSON but no object.
UpOk      == Upload(Name("a", "jpg"), Image(TRUE, TRUE, TextReply(PanJson)))
UpTimeout == Upload(Name("b", "png"),
                    Image(TRUE, TRUE, [kind |-> "raise",
                                       msg |-> <<"HTTPConnectionPool: Read timed out.">>]))
UpText    == Upload(Name("c", "txt"), Image(TRUE, FALSE, TextReply(ProseText)))
UpBig     == [filename |-> Name("d", "jpg"), readable |-> TRUE,
              image |-> [exists |-> TRUE, opens |-> TRUE,
                         size |-> MAX_FILE_SIZE + 1, reply |-> TextReply(PanJson)]]
UpGone    == Upload(Name("e", "jpg"), Image(FALSE, TRUE, TextReply(PanJson)))
UpNull    == Upload(Name("f", "jpg"), Image(TRUE, TRUE, TextReply(<<"null">>)))
UpList    == Upload(Name("g", "jpg"), Image(TRUE, TRUE, TextReply(<<"[", "]">>)))

UploadKinds == {UpOk, UpTimeout, UpText, UpBig, UpGone, UpNull, UpList}

\* Batches of up to MaxFiles uploads of any kinds, and batches of good
\* uploads at the size limit and one above it.
Batches ==
    { [files |-> f, document_type |-> "pan"] :
        f \in UNION { [1 .. n -> UploadKinds] : n \in 0 .. MaxFiles } }
    \cup
    { [files |-> [i \in 1 .. n |-> UpOk], document_type |-> "pan"] :
        n \in {MAX_BATCH_FILES, MAX_BATCH_FILES + 1} }

\* VALIDATE stands for "VALIDATE_PAN_FORMAT or VALIDATE_AADHAAR_FORMAT".
Deployments ==
    { [VALIDATE |-> v, SAVE_EXTRACTED_DATA |-> s, DELETE_UPLOADED_FILES |-> d] :
        v \in BOOLEAN, s \in BOOLEAN, d \in BOOLEAN }

ExtractorStates ==
    { [available |-> TRUE,  model_ready |-> TRUE],
      [available |-> TRUE,  model_ready |-> FALSE],
      [available |-> FALSE, model_ready |-> FALSE] }

\* ------------------------------------------------------------------- Init

Idle ==
    /\ upload_folder = EmptyBag
    /\ uuids = 0
    /\ request = "none"
    /\ pc = "idle"
    /\ save_tasks = <<>>
    /\ file_paths = <<>>
    /\ saved_paths = <<>>
    /\ extraction_tasks = <<>>
    /\ in_flight = <<>>
    /\ results = <<>>
    /\ results_src = <<>>
    /\ saved_src = <<>>
    /\ next_file = 1
    /\ staged = 0
    /\ runs = 0
    /\ responses = [e \in Endpoints |-> None]
    /\ output_folder = {}
    /\ clock = 0
    /\ queries = 0
    /\ health = 0

Init ==
    /\ settings \in Deployments
    /\ extractor \in ExtractorStates
    /\ batch \in Batches
    /\ call = None
    /\ single = None
    /\ validation = None
    /\ parsing = None
    /\ disk \in {"ok", "full"}
    /\ Idle

\* ---------------------------------------------------------------- actions

RemoveAt(seq, k) == SubSeq(seq, 1, k - 1) \o SubSeq(seq, k + 1, Len(seq))

\* The loop as it would be were the model queried without blocking.
LoopFree_nonblocking == TRUE

\* The event loop can run another coroutine: no pipeline run is inside
\* the synchronous self.model.query(image, prompt), which holds the
\* loop's only thread until the model has answered.
LoopFree == in_flight = <<>>

\* The client posts the batch to an endpoint.  The request is validated,
\* the handler's guards run, and an accepted batch starts being staged.
Submit(ep) ==
    /\ request = "none"
    /\ responses[ep] = None
    /\ LoopFree
    /\ LET rejected == IF RequestValidation(batch.files) # None
                       THEN RequestValidation(batch.files)
                       ELSE BatchGuard(batch.files)
       IN  /\ responses' = [responses EXCEPT ![ep] =
                               IF rejected # None THEN rejected ELSE None]
           /\ request' = IF rejected # None THEN "none" ELSE ep
           /\ pc' = IF rejected # None THEN "idle" ELSE "saving"
    /\ save_tasks' = IF ep = "extract_async" THEN batch.files ELSE <<>>
    /\ file_paths' = <<>>
    /\ saved_paths' = <<>>
    /\ extraction_tasks' = <<>>
    /\ results' = <<>>
    /\ results_src' = <<>>
    /\ saved_src' = <<>>
    /\ next_file' = 1
    /\ staged' = 0
    /\ runs' = 0
    /\ UNCHANGED <<settings, extractor, upload_folder, uuids, batch, in_flight, call,
                   single, output_folder, disk, clock,
                   validation, parsing,
                   queries, health>>

\* Whether save_upload_file gets as far as drawing a uuid4 name.
DrawsUuid(upload_file) ==
    upload_file.filename # NoFilename /\ allowed_file(upload_file.filename)

\* batch_extract, "for file in files": one save_upload_file awaited.
SeqSave ==
    /\ request = "extract"
    /\ pc = "saving"
    /\ LoopFree
    /\ LET file == batch.files[next_file]
           r    == save_upload_file(file)
       IN  /\ uuids' = IF DrawsUuid(file) THEN uuids + 1 ELSE uuids
           /\ IF r.raised
              THEN /\ results' = Append(results,
                        ErrorResult(batch.document_type, file.filename,
                                    <<"Error saving file: ">> \o r.exc.msg))
                   /\ results_src' = Append(results_src, file)
                   /\ UNCHANGED file_paths
              ELSE /\ file_paths' = Append(file_paths, <<r.val, file.filename>>)
                   /\ UNCHANGED <<results, results_src>>
           /\ upload_folder' = FolderAfterSave(upload_folder, file)
    /\ staged' = staged + 1
    /\ IF next_file = Len(batch.files)
       THEN pc' = "extracting" /\ next_file' = 1
       ELSE pc' = pc /\ next_file' = next_file + 1
    /\ UNCHANGED <<settings, extractor, batch, request, save_tasks, saved_paths,
                   saved_src, extraction_tasks, in_flight, runs, responses, call,
                   single, output_folder, disk, clock,
                   validation, parsing,
                   queries, health>>

\* A pipeline run starts on task = (file_path, filename).  A run that
\* reaches the model waits in_flight; any other run is over at once.
StartRun(task) ==
    LET image == task[1].upload.image
    IN  /\ runs' = runs + 1
        /\ IF QueriesModel(image, batch.document_type)
           THEN /\ in_flight' = Append(in_flight, task)
                /\ queries' = queries + 1
                /\ UNCHANGED <<results, results_src, output_folder>>
           ELSE /\ results' = Append(results,
                      AwaitExtraction(
                          extract_from_image(image, batch.document_type, task[2]),
                          batch.document_type, task[2]))
                /\ results_src' = Append(results_src, task[1].upload)
                /\ output_folder' = OutputAfter(output_folder,
                      extract_from_image(image, batch.document_type, task[2]),
                      task[2])
                /\ UNCHANGED <<in_flight, queries>>

\* batch_extract, "for file_path, filename in file_paths": the next run
\* starts when the one before it has been awaited.
SeqExtract ==
    /\ request = "extract"
    /\ pc = "extracting"
    /\ in_flight = <<>>
    /\ next_file <= Len(file_paths)
    /\ StartRun(file_paths[next_file])
    /\ next_file' = next_file + 1
    /\ UNCHANGED <<settings, extractor, upload_folder, uuids, batch, request, pc,
                   save_tasks, file_paths, saved_paths, saved_src,
                   extraction_tasks, staged, responses, call,
                   single, disk, clock,
                   validation, parsing, health>>

\* The model answers a waiting run, which goes on to its end; the handler
\* appends its result.
ModelAnswers ==
    /\ request # "none"
    /\ \E k \in 1 .. Len(in_flight) : LET task == in_flight[k] IN
        /\ in_flight' = RemoveAt(in_flight, k)
        /\ results' = Append(results,
              AwaitExtraction(
                  extract_from_image(task[1].upload.image, batch.document_type, task[2]),
                  batch.document_type,
                  IF request = "extract" THEN task[2]
                  ELSE IF Len(results) < Len(file_paths)
                       THEN file_paths[Len(results) + 1][2]
                       ELSE [stem |-> "unknown", ext |-> ""]))
        /\ results_src' = Append(results_src, task[1].upload)
        /\ output_folder' = OutputAfter(output_folder,
              extract_from_image(task[1].upload.image, batch.document_type, task[2]),
              task[2])
    /\ UNCHANGED <<settings, extractor, upload_folder, uuids, batch, request, pc,
                   save_tasks, file_paths, saved_paths, saved_src,
                   extraction_tasks, next_file, staged, runs, responses, call,
                   single, disk, clock,
                   validation, parsing,
                   queries, health>>

\* batch_extract_async, "for i, task in enumerate(as_completed(save_tasks))":
\* some save task completes, and is entered under files[i].filename, i the
\* number of tasks completed before it.
AsyncSave ==
    /\ request = "extract_async"
    /\ pc = "saving"
    /\ LoopFree
    /\ \E k \in 1 .. Len(save_tasks) :
        LET file     == save_tasks[k]
            r        == save_upload_file(file)
            filename == batch.files[Len(saved_paths) + 1].filename
        IN  /\ uuids' = IF DrawsUuid(file) THEN uuids + 1 ELSE uuids
            /\ IF r.raised
               THEN /\ saved_paths' = Append(saved_paths, <<None, filename, r.exc.msg>>)
                    /\ UNCHANGED file_paths
               ELSE /\ saved_paths' = Append(saved_paths, <<r.val, filename>>)
                    /\ file_paths' = Append(file_paths, <<r.val, filename>>)
            /\ upload_folder' = FolderAfterSave(upload_folder, file)
            /\ saved_src' = Append(saved_src, file)
            /\ save_tasks' = RemoveAt(save_tasks, k)
            /\ IF Len(save_tasks) = 1
               THEN /\ pc' = "extracting"
                    /\ extraction_tasks' =
                         IF r.raised THEN file_paths
                         ELSE Append(file_paths, <<r.val, filename>>)
               ELSE UNCHANGED <<pc, extraction_tasks>>
    /\ staged' = staged + 1
    /\ UNCHANGED <<settings, extractor, batch, request, in_flight, results,
                   results_src, next_file, runs, responses, call,
                   single, output_folder, disk, clock,
                   validation, parsing,
                   queries, health>>

\* batch_extract_async, "as_completed(extraction_tasks)": the loop runs
\* the tasks in no particular order, one whenever it is free.
AsyncExtract ==
    /\ request = "extract_async"
    /\ pc = "extracting"
    /\ LoopFree
    /\ \E k \in 1 .. Len(extraction_tasks) :
        /\ StartRun(extraction_tasks[k])
        /\ extraction_tasks' = RemoveAt(extraction_tasks, k)
    /\ UNCHANGED <<settings, extractor, upload_folder, uuids, batch, request, pc,
                   save_tasks, file_paths, saved_paths, saved_src, next_file,
                   staged, responses, call,
                   single, disk, clock,
                   validation, parsing, health>>

\* Every save task and every pipeline run of the request is over.
Finished ==
    /\ request # "none"
    /\ pc = "extracting"
    /\ in_flight = <<>>
    /\ IF request = "extract" THEN next_file > Len(file_paths)
       ELSE extraction_tasks = <<>>

\* The results list as the handler returns it: batch_extract_async adds
\* the "errors from file saving" behind the extraction results.
FinalResults ==
    IF request = "extract" THEN results
    ELSE results \o SavingErrors(saved_paths, batch.document_type)

FinalSrc ==
    IF request = "extract" THEN results_src
    ELSE results_src \o SavingErrorsSrc(saved_paths, saved_src)

\* Every result is in: the statistics, the BatchExtractionResponse, and
\* the "finally" that cleans the staged files up.
Respond ==
    /\ Finished
    /\ results' = FinalResults
    /\ results_src' = FinalSrc
    /\ responses' = [responses EXCEPT ![request] = BatchResponse(FinalResults)]
    /\ upload_folder' = CleanupAll(upload_folder, file_paths)
    /\ request' = "none"
    /\ pc' = "idle"
    /\ UNCHANGED <<settings, extractor, uuids, batch, save_tasks, file_paths,
                   saved_paths, saved_src, extraction_tasks, in_flight, next_file,
                   staged, runs, call,
                   single, output_folder, disk, clock,
                   validation, parsing,
                   queries, health>>

Next ==
    \/ \E ep \in Endpoints : Submit(ep)
    \/ SeqSave
    \/ SeqExtract
    \/ ModelAnswers
    \/ AsyncSave
    \/ AsyncExtract
    \/ Respond

Spec == Init /\ [][Next]_vars

\* --------------------------------------- the pipeline called on its own

DocumentTypes == {"pan", "aadhaar", "PAN", "passport"}

Calls ==
    { [image |-> i, document_type |-> d, original_filename |-> f, outcome |-> None] :
        i \in Images, d \in DocumentTypes, f \in {Name("a", "jpg"), None} }

InitCall ==
    /\ settings \in Deployments
    /\ extractor \in ExtractorStates
    /\ batch = [files |-> <<>>, document_type |-> "pan"]
    /\ call \in Calls
    /\ single = None
    /\ validation = None
    /\ parsing = None
    /\ disk \in {"ok", "full"}
    /\ Idle

\* extract_from_image(image_path, document_type, original_filename) is
\* awaited; what the caller gets, a value or an exception, is recorded.
\* The caller may make the same call again.
CallExtract ==
    /\ call # None
    /\ runs < MaxCalls
    /\ runs' = runs + 1
    /\ call' = [call EXCEPT !.outcome =
                   extract_from_image(call.image, call.document_type,
                                      call.original_filename)]
    /\ output_folder' = OutputAfter(output_folder,
          extract_from_image(call.image, call.document_type, call.original_filename),
          call.original_filename)
    /\ queries' = IF QueriesModel(call.image, call.document_type)
                  THEN queries + 1 ELSE queries
    /\ UNCHANGED <<settings, extractor, upload_folder, uuids, batch, request, pc,
                   save_tasks, file_paths, saved_paths, extraction_tasks,
                   in_flight, results, results_src, saved_src, next_file,
                   staged, responses, single, disk, clock,
                   validation, parsing, health>>

\* The wall clock passes into the next second.
Tick ==
    /\ call # None
    /\ clock < MaxClock
    /\ clock' = clock + 1
    /\ UNCHANGED <<settings, extractor, upload_folder, uuids, batch, request, pc,
                   save_tasks, file_paths, saved_paths, extraction_tasks,
                   in_flight, results, results_src, saved_src, next_file,
                   staged, runs, responses, call, single, output_folder, disk,
                   validation, parsing, queries, health>>

NextCall ==
    \/ CallExtract
    \/ Tick

SpecPipeline == InitCall /\ [][NextCall]_vars

\* ------------------------------------- the single-document endpoints

\* An upload whose part names no file.
UpNoName == Upload(NoFilename, Image(TRUE, TRUE, TextReply(PanJson)))

\* extract_pan, extract_aadhaar and extract_document differ in where the
\* document type comes from; a request is its file and that type.
SingleRequests ==
    { [file |-> u, document_type |-> d, pc |-> "received",
       file_path |-> None, response |-> None] :
        u \in UploadKinds \cup {UpNoName}, d \in {"pan", "aadhaar"} }

InitSingle ==
    /\ settings \in Deployments
    /\ extractor \in ExtractorStates
    /\ batch = [files |-> <<>>, document_type |-> "pan"]
    /\ call = None
    /\ single \in SingleRequests
    /\ validation = None
    /\ parsing = None
    /\ disk \in {"ok", "full"}
    /\ Idle

\* The status an HTTPException is answered with
StatusCode(status_code) == IF status_code = "400" THEN 400 ELSE 500

\* "file_path = await save_upload_file(file)"; an HTTPException leaves the
\* handler as it is ("except HTTPException: raise"), with no file_path for
\* the "finally" to clean up.
SingleSave ==
    /\ single # None
    /\ single.pc = "received"
    /\ LET r == save_upload_file(single.file)
       IN  /\ uuids' = IF DrawsUuid(single.file) THEN uuids + 1 ELSE uuids
           /\ IF r.raised
              THEN /\ single' = [single EXCEPT
                         !.pc = "done",
                         !.response = [http |-> StatusCode(r.exc.status_code),
                                       detail |-> r.exc.detail]]
              ELSE /\ single' = [single EXCEPT !.pc = "extracting",
                                               !.file_path = r.val]
           /\ upload_folder' = FolderAfterSave(upload_folder, single.file)
    /\ staged' = staged + 1
    /\ UNCHANGED <<settings, extractor, batch, request, pc, save_tasks, file_paths,
                   saved_paths, extraction_tasks, in_flight, results, results_src,
                   saved_src, next_file, runs, responses, call, output_folder,
                   disk, clock,
                   validation, parsing,
                   queries, health>>

\* What the client gets for the handler's "return result" (the result goes
\* through response_model=ExtractionResponse) or for an exception
\* ("except Exception as e: raise HTTPException(500, str(e))").
SingleResponse(outcome) ==
    IF outcome.raised THEN [http |-> 500, detail |-> outcome.exc.msg]
    ELSE IF ValidExtractionResponse(outcome.val)
    THEN [http |-> 200, body |-> outcome.val]
    ELSE [http |-> 500, detail |-> <<"Internal Server Error">>]

\* The rest of the handler once extract_from_image has returned: "return
\* result" and the "finally" that cleans the staged file up.
SingleFinish ==
    /\ single' = [single EXCEPT
          !.pc = "done",
          !.response = SingleResponse(
              extract_from_image(single.file_path.upload.image,
                                 single.document_type, single.file.filename))]
    /\ output_folder' = OutputAfter(output_folder,
          extract_from_image(single.file_path.upload.image,
                             single.document_type, single.file.filename),
          single.file.filename)
    /\ upload_folder' = cleanup_file(upload_folder, single.file_path)

\* "result = await extractor.extract_from_image(...)": a run that reaches
\* the model waits in_flight for its answer, any other run is over at once.
SingleExtract ==
    /\ single # None
    /\ single.pc = "extracting"
    /\ LoopFree
    /\ runs' = runs + 1
    /\ IF QueriesModel(single.file_path.upload.image, single.document_type)
       THEN /\ in_flight' = <<<<single.file_path, single.file.filename>>>>
            /\ queries' = queries + 1
            /\ single' = [single EXCEPT !.pc = "querying"]
            /\ UNCHANGED <<output_folder, upload_folder>>
       ELSE /\ SingleFinish
            /\ UNCHANGED <<in_flight, queries>>
    /\ UNCHANGED <<settings, extractor, uuids, batch, request, pc, save_tasks,
                   file_paths, saved_paths, extraction_tasks, results,
                   results_src, saved_src, next_file, staged, responses, call,
                   disk, clock, validation, parsing, health>>

\* self.model.query returns, and the run goes on to its end.
SingleAnswers ==
    /\ single # None
    /\ single.pc = "querying"
    /\ in_flight' = <<>>
    /\ SingleFinish
    /\ UNCHANGED <<settings, extractor, uuids, batch, request, pc, save_tasks,
                   file_paths, saved_paths, extraction_tasks, results,
                   results_src, saved_src, next_file, staged, runs, responses, call,
                   disk, clock, validation, parsing, queries, health>>

\* GET /health: the handler awaits check_connection and answers.  It is a
\* coroutine of the same event loop, which must be free to run it.
HealthCheck ==
    /\ LoopFree
    /\ health < MaxHealthChecks
    /\ health' = health + 1
    /\ UNCHANGED <<settings, extractor, upload_folder, uuids, batch, request, pc,
                   save_tasks, file_paths, saved_paths, extraction_tasks,
                   in_flight, results, results_src, saved_src, next_file, staged,
                   runs, responses, call, single, output_folder, disk, clock,
                   validation, parsing, queries>>

NextSingle ==
    \/ SingleSave
    \/ SingleExtract
    \/ SingleAnswers
    \/ HealthCheck

SpecSingle == InitSingle /\ [][NextSingle]_vars

\* ------------------------------------ the requests that stage an upload

\* A deployment serves a batch on either batch endpoint or one document on
\* a single-document endpoint.
InitCleanup == Init \/ InitSingle

NextCleanup ==
    \/ Next
    \/ SingleSave
    \/ SingleExtract
    \/ SingleAnswers

SpecCleanup == InitCleanup /\ [][NextCleanup]_vars

\* ------------------------------------------- the validator, used directly

\* Characters found around a number on a card or in a model's answer.
Pads == {<<>>, <<" ">>, <<"\t">>, <<"\n">>, <<"-">>}

\* Twelve-character (or nearly) Aadhaar bodies: plain, partly masked, fully
\* masked, one short, one with a letter.
AadhaarBodies ==
    { <<"1", "2", "0", "1", "2", "0", "1", "2", "0", "1", "2", "0">>,
      <<"X", "X", "X", "X", "X", "X", "X", "X", "1", "2", "0", "1">>,
      <<"X", "X", "X", "X", "X", "X", "X", "X", "X", "X", "X", "X">>,
      <<"1", "2", "0", "1", "2", "0", "1", "2", "0", "1", "2">>,
      <<"1", "2", "0", "1", "A", "0", "1", "2", "0", "1", "2", "0">> }

\* A body written in groups of four with the separator sep between them.
Grouped(body, sep) ==
    SubSeq(body, 1, 4) \o sep \o SubSeq(body, 5, 8) \o sep
        \o SubSeq(body, 9, Len(body))

AadhaarStrings ==
    { pre \o Grouped(body, sep) \o post :
        pre \in Pads \cup {<<"-", "\t">>}, body \in AadhaarBodies,
        sep \in {<<>>, <<" ">>, <<"-">>}, post \in Pads \cup {<<"\n", "-">>} }

\* PAN bodies: well formed, lower case, one short, a digit for the last
\* letter, a digit for the first letter.
PanBodies ==
    { <<"A", "B", "A", "B", "A", "1", "2", "1", "2", "A">>,
      <<"a", "b", "A", "B", "X", "0", "2", "1", "2", "b">>,
      <<"A", "B", "A", "B", "1", "2", "1", "2", "A">>,
      <<"A", "B", "A", "B", "A", "1", "2", "1", "2", "1">>,
      <<"1", "B", "A", "B", "A", "1", "2", "1", "2", "A">> }

PanStrings ==
    { pre \o SubSeq(body, 1, 5) \o sep \o SubSeq(body, 6, Len(body)) \o post :
        pre \in Pads \cup {<<"-", "\t">>}, body \in PanBodies,
        sep \in {<<>>, <<" ">>, <<"\t">>}, post \in Pads \cup {<<"\n", "-">>} }

\* Values of the number field that are no number string: null, the empty
\* string, JSON numbers, true, an empty list.
OtherValues ==
    { JNull, JStr(<<>>), JNum(<<"1", "2">>), JNum(<<"0">>), JTrue, JArr(<<>>) }

OtherFields == <<<<(<<"name">>), JStr(<<"A", " ", "B">>)>>>>

\* The field mappings handed to the validator: the parser's object with
\* the number field absent, or present with one of the values above.
FieldMappings ==
    {JObj(OtherFields)}
    \cup { JObj(Append(OtherFields, <<(<<"pan_number">>), v>>)) :
              v \in OtherValues \cup { JStr(x) : x \in PanStrings } }
    \cup { JObj(<<<<(<<"aadhaar_number">>), v>>>> \o OtherFields) :
              v \in OtherValues \cup { JStr(x) : x \in AadhaarStrings } }

InitValidator ==
    /\ settings = [VALIDATE |-> TRUE, SAVE_EXTRACTED_DATA |-> TRUE,
                   DELETE_UPLOADED_FILES |-> TRUE]
    /\ extractor = [available |-> TRUE, model_ready |-> TRUE]
    /\ batch = [files |-> <<>>, document_type |-> "pan"]
    /\ call = None
    /\ single = None
    /\ parsing = None
    /\ disk = "ok"
    /\ validation \in
          { [data |-> d, document_type |-> t, pc |-> "input",
             once |-> None, twice |-> None, format |-> None] :
              d \in FieldMappings, t \in {"pan", "aadhaar"} }
    /\ Idle

\* The key of the identifying number for a document type, and of its flag
NumberField(document_type) ==
    IF document_type = "pan" THEN <<"pan_number">> ELSE <<"aadhaar_number">>
ValidField(document_type) ==
    IF document_type = "pan" THEN <<"pan_valid">> ELSE <<"aadhaar_valid">>

\* validated = validate_extracted_data(data, document_type)
Validate ==
    /\ validation # None
    /\ validation.pc = "input"
    /\ validation' = [validation EXCEPT
          !.pc = "validated",
          !.once = validate_extracted_data(validation.data,
                                           validation.document_type)]
    /\ UNCHANGED <<settings, extractor, upload_folder, uuids, batch, request, pc,
                   save_tasks, file_paths, saved_paths, extraction_tasks,
                   in_flight, results, results_src, saved_src, next_file, staged,
                   runs, responses, call, single, output_folder, disk, clock,
                   parsing,
                   queries, health>>

\* validate_extracted_data(validated, document_type): the validator applied
\* to its own output.
Revalidate ==
    /\ validation # None
    /\ validation.pc = "validated"
    /\ ~validation.once.raised
    /\ validation' = [validation EXCEPT
          !.pc = "revalidated",
          !.twice = validate_extracted_data(validation.once.val,
                                            validation.document_type)]
    /\ UNCHANGED <<settings, extractor, upload_folder, uuids, batch, request, pc,
                   save_tasks, file_paths, saved_paths, extraction_tasks,
                   in_flight, results, results_src, saved_src, next_file, staged,
                   runs, responses, call, single, output_folder, disk, clock,
                   parsing,
                   queries, health>>

\* The data holds a number string for the document type
HasNumberString(v) ==
    /\ HasKey(v.data.m, NumberField(v.document_type))
    /\ GetKey(v.data.m, NumberField(v.document_type)).t = "str"

RawNumber(v) == GetKey(v.data.m, NumberField(v.document_type)).s

\* validate_pan_format(number)[0] / validate_aadhaar_format(number)[0] on
\* the number string as it came.
CheckFormat ==
    /\ validation # None
    /\ validation.format = None
    /\ HasNumberString(validation)
    /\ validation' = [validation EXCEPT
          !.format = JBool(IF validation.document_type = "pan"
                           THEN validate_pan_format(RawNumber(validation))
                           ELSE validate_aadhaar_format(RawNumber(validation)))]
    /\ UNCHANGED <<settings, extractor, upload_folder, uuids, batch, request, pc,
                   save_tasks, file_paths, saved_paths, extraction_tasks,
                   in_flight, results, results_src, saved_src, next_file, staged,
                   runs, responses, call, single, output_folder, disk, clock,
                   parsing,
                   queries, health>>

NextValidator ==
    \/ Validate
    \/ Revalidate
    \/ CheckFormat

SpecValidator == InitValidator /\ [][NextValidator]_vars

\* --------------------------------------- the answer parser, used directly

\* Longest string value of the objects handed to the parser.
MaxStringLen == 2

\* json.dumps of a value that is no container
DumpValue(v) ==
    CASE v.t = "null" -> <<"null">>
      [] v.t = "true" -> <<"true">>
      [] v.t = "num"  -> v.digits
      [] v.t = "str"  -> <<Q>> \o v.s \o <<Q>>

RECURSIVE DumpMembers(_)
DumpMembers(m) ==
    IF m = <<>> THEN <<>>
    ELSE <<Q>> \o m[1][1] \o <<Q, ":", " ">> \o DumpValue(m[1][2])
         \o (IF Len(m) > 1 THEN <<",", " ">> ELSE <<>>) \o DumpMembers(Tail(m))

\* json.dumps(O) of an object of such values, with its ", " and ": "
json_dumps(O) == <<"{">> \o DumpMembers(O.m) \o <<"}">>

\* String values: letters, digits, braces and fence markers, none of which
\* json.dumps escapes.
StringValues ==
    { JStr(x) : x \in UNION { [1 .. n -> {"A", "1", "{", "}", FENCE}] :
                                n \in 0 .. MaxStringLen } }

Scalars == StringValues \cup {JNull, JTrue, JNum(<<"1", "2">>)}

\* JSON objects of one or two fields
JsonObjects ==
    { JObj(<<<<(<<"name">>), v>>>>) : v \in Scalars }
    \cup { JObj(<<<<(<<"pan_number">>), v>>, <<(<<"name">>), w>>>>) :
              v \in Scalars, w \in Scalars }

\* How a model hands an object over: as the whole answer; as prose
\* followed by a fenced block marked json; in a plain fenced block; in
\* the middle of prose; in a json block whose closing fence is missing;
\* behind a json block that holds no JSON; inside a list; and not at all
\* (prose only, or the answer null).
Layouts == {"direct", "fenced", "plain", "braces", "unclosed", "second",
            "list", "prose", "null"}

Prose == <<"Here", " ", "is", " ", "the", " ", "data", ":", "\n">>

Answer(O, layout) ==
    CASE layout = "direct"   -> json_dumps(O)
      [] layout = "fenced"   -> Prose \o <<FENCE, "json", "\n">>
                                \o json_dumps(O) \o <<"\n", FENCE>>
      [] layout = "plain"    -> Prose \o <<FENCE, "\n">>
                                \o json_dumps(O) \o <<"\n", FENCE>>
      [] layout = "braces"   -> Prose \o json_dumps(O) \o <<" ", "done">>
      [] layout = "unclosed" -> Prose \o <<FENCE, "json", "\n">> \o json_dumps(O)
      [] layout = "second"   -> <<FENCE, "json", "\n", "none", "\n", FENCE, "\n">>
                                \o json_dumps(O)
      [] layout = "list"     -> <<"[">> \o json_dumps(O) \o <<"]">>
      [] layout = "prose"    -> ProseText
      [] layout = "null"     -> <<"null">>

InitParser ==
    /\ settings = [VALIDATE |-> TRUE, SAVE_EXTRACTED_DATA |-> TRUE,
                   DELETE_UPLOADED_FILES |-> TRUE]
    /\ extractor = [available |-> TRUE, model_ready |-> TRUE]
    /\ batch = [files |-> <<>>, document_type |-> "pan"]
    /\ call = None
    /\ single = None
    /\ validation = None
    /\ disk = "ok"
    /\ parsing \in { [O |-> O, layout |-> l, response_text |-> Answer(O, l),
                       out |-> None] : O \in JsonObjects, l \in Layouts }
    /\ Idle

\* extracted_data = self._parse_json_response(answer_text)
Parse ==
    /\ parsing # None
    /\ parsing.out = None
    /\ parsing' = [parsing EXCEPT !.out = _parse_json_response(parsing.response_text)]
    /\ UNCHANGED <<settings, extractor, upload_folder, uuids, batch, request, pc,
                   save_tasks, file_paths, saved_paths, extraction_tasks,
                   in_flight, results, results_src, saved_src, next_file, staged,
                   runs, responses, call, single, output_folder, disk, clock,
                   validation,
                   queries, health>>

NextParser == Parse

SpecParser == InitParser /\ [][NextParser]_vars

\* ------------------------------------------------------------- properties

Count(seq, x) == Cardinality({ i \in 1 .. Len(seq) : seq[i] = x })

\* The two sequences hold the same elements the same number of times.
SameBag(a, b) ==
    /\ Len(a) = Len(b)
    /\ \A i \in 1 .. Len(a) : Count(a, a[i]) = Count(b, a[i])

Answered(ep) == responses[ep] # None
Ok(ep) == responses[ep] # None /\ responses[ep].http = 200

\* What the pipeline makes of an upload when it is run on it alone.
OwnResult(u) ==
    extract_from_image(u.image, batch.document_type, u.filename).val

\* C1: every BatchResult a batch endpoint returns has total_documents =
\* len(results), successful = the number of success results, failed =
\* total_documents - successful, and status success iff failed = 0 and
\* total_documents > 0, error iff successful = 0, partial otherwise.
C1_BatchResultInvariant ==
    \A ep \in Endpoints :
        Ok(ep) =>
            LET b  == responses[ep].body
                ok == { i \in 1 .. Len(b.results) : b.results[i].status = "success" }
            IN  /\ b.total_documents = Len(b.results)
                /\ b.successful = Cardinality(ok)
                /\ b.failed = b.total_documents - b.successful
                /\ b.status = "success" <=> (b.failed = 0 /\ b.total_documents > 0)
                /\ b.status = "error" <=> b.successful = 0
                /\ b.status = "partial" <=> (b.failed > 0 /\ b.successful > 0)

\* A concurrent batch came back partial: one success, one failure.
C1_Witness ==
    /\ Ok("extract_async")
    /\ responses["extract_async"].body.status = "partial"
    /\ responses["extract_async"].body.successful = 1
    /\ responses["extract_async"].body.failed = 1

\* C2: for every accepted batch of N files, in both modes, the results
\* list holds exactly one ExtractionResult per submitted file: N entries,
\* each upload behind as many entries as it was submitted times, and an
\* upload that fails to be staged or to be extracted behind an error
\* entry.
C2_OneResultPerFile ==
    /\ Finished =>
        /\ Len(FinalResults) = Len(batch.files)
        /\ SameBag(FinalSrc, batch.files)
        /\ \A i \in 1 .. Len(FinalResults) :
              (save_upload_file(FinalSrc[i]).raised
                  \/ OwnResult(FinalSrc[i]).status = "error")
              => FinalResults[i].status = "error"
    /\ \A ep \in Endpoints :
        Ok(ep) => responses[ep].body.total_documents = Len(batch.files)

\* A concurrent batch is complete with one upload that could not be
\* staged and one whose extraction failed.
C2_Witness ==
    /\ Finished
    /\ request = "extract_async"
    /\ \E i \in 1 .. Len(batch.files) : save_upload_file(batch.files[i]).raised
    /\ \E i \in 1 .. Len(batch.files) :
          /\ ~save_upload_file(batch.files[i]).raised
          /\ OwnResult(batch.files[i]).status = "error"

\* C3: in sequential mode the i-th entry of results is the
\* ExtractionResult of the i-th submitted file.
C3_SequentialOrder ==
    (Finished /\ request = "extract") =>
        \A i \in 1 .. Len(FinalResults) :
            /\ i <= Len(batch.files)
            /\ FinalSrc[i] = batch.files[i]
            /\ FinalResults[i].metadata.original_filename = batch.files[i].filename

\* C4: for the same inputs and per-item outcomes, the concurrent endpoint
\* returns the same multiset of ExtractionResults as the sequential one.
C4_SameResultsAsSequential ==
    (Ok("extract") /\ Ok("extract_async")) =>
        SameBag(responses["extract"].body.results,
                responses["extract_async"].body.results)

Called == call # None /\ call.outcome # None

\* The inputs of the call on which some step of the pipeline must fail.
CallMustFail ==
    \/ get_extraction_prompt(call.document_type) = ""
    \/ ~call.image.exists
    \/ ~call.image.opens
    \/ ~extractor.available
    \/ ~extractor.model_ready
    \/ call.image.reply.kind = "raise"
    \/ call.image.reply.value = None
    \/ call.image.reply.value = JStr(<<>>)
    \/ call.image.reply.value = JStr(ProseText)

\* C6: extract_from_image is total: whatever the document type, the
\* image, the state of the model and its reply, it raises nothing and
\* returns a result of status success or error; a call one of whose steps
\* must fail returns status error, and every error result carries a
\* non-empty error message.
C6_PipelineTotal ==
    Called =>
        /\ ~call.outcome.raised
        /\ call.outcome.val.status \in {"success", "error"}
        /\ CallMustFail => call.outcome.val.status = "error"
        /\ call.outcome.val.status = "error" =>
              /\ "error" \in DOMAIN call.outcome.val
              /\ Len(call.outcome.val.error) > 0
              /\ \A i \in 1 .. Len(call.outcome.val.error) :
                    call.outcome.val.error[i] # ""

\* The model timed out on a call that was sound otherwise, and the call
\* returned an error result.
C6_Witness ==
    /\ Called
    /\ call.image.reply = [kind |-> "raise",
                           msg |-> <<"HTTPConnectionPool: Read timed out.">>]
    /\ call.image.exists /\ call.image.opens
    /\ extractor.model_ready
    /\ call.document_type = "pan"
    /\ ~call.outcome.raised
    /\ call.outcome.val.status = "error"

\* data is populated
HasData(r) == r.data # None
\* error is populated
HasError(r) == "error" \in DOMAIN r /\ r.error # <<>>

\* C7: every ExtractionResult the pipeline returns has exactly one of
\* data and error populated: data and no error iff its status is success,
\* error and no data iff its status is error.
C7_DataXorError ==
    (Called /\ ~call.outcome.raised) =>
        LET r == call.outcome.val
        IN  /\ r.status = "success" <=> (HasData(r) /\ ~HasError(r))
            /\ r.status = "error" <=> (HasError(r) /\ ~HasData(r))

\* C8: in a batch of either mode, an item whose extraction fails gets an
\* error result and every other item the result of its own extraction;
\* the batch is never aborted: every accepted batch is answered with its
\* BatchResult.
C8_PerItemIsolation ==
    /\ Finished =>
          \A i \in 1 .. Len(FinalResults) :
              FinalResults[i].status =
                  IF save_upload_file(FinalSrc[i]).raised THEN "error"
                  ELSE OwnResult(FinalSrc[i]).status
    /\ \A ep \in Endpoints :
          (Answered(ep) /\ Len(batch.files) \in 1 .. MAX_BATCH_FILES)
              => responses[ep].http = 200

\* C9: a batch of more than 50 files is rejected with HTTP 400 by either
\* endpoint, before any file is staged and any pipeline run is made; a
\* batch of 1 to 50 files is never rejected for its size.
C9_TooManyFiles ==
    /\ Len(batch.files) > MAX_BATCH_FILES =>
          /\ \A ep \in Endpoints : Answered(ep) => responses[ep].http = 400
          /\ request = "none"
          /\ staged = 0 /\ runs = 0 /\ uuids = 0
          /\ upload_folder = EmptyBag
    /\ Len(batch.files) \in 1 .. MAX_BATCH_FILES =>
          \A ep \in Endpoints :
              Answered(ep) => responses[ep].http \notin {400, 422}

\* Both endpoints have turned a batch of 51 files down.
C9_Witness ==
    /\ Len(batch.files) = MAX_BATCH_FILES + 1
    /\ \A ep \in Endpoints : Answered(ep) /\ responses[ep].http = 400

\* Nothing of the request has been staged or run.
NothingStarted ==
    /\ request = "none"
    /\ staged = 0 /\ runs = 0 /\ uuids = 0
    /\ upload_folder = EmptyBag

\* C10 (as stated): a batch request with zero files is rejected with
\* HTTP 400 by either endpoint, before orchestration starts.
C10_ZeroFiles400 ==
    Len(batch.files) = 0 =>
        /\ \A ep \in Endpoints : Answered(ep) => responses[ep].http = 400
        /\ NothingStarted

\* C10 (amended): a batch request with zero files is rejected with HTTP
\* 422 by either endpoint, by the validation of the request and before
\* the handler and its orchestration start.
C10_ZeroFiles422 ==
    Len(batch.files) = 0 =>
        /\ \A ep \in Endpoints : Answered(ep) => responses[ep].http = 422
        /\ NothingStarted

\* Both endpoints have answered a request without files.
C10_Witness ==
    /\ Len(batch.files) = 0
    /\ \A ep \in Endpoints : Answered(ep) /\ responses[ep].http = 422

\* The upload names no file, a file of a type not allowed, or a file
\* above the size limit.
RejectedUpload(u) ==
    \/ u.filename = NoFilename
    \/ ~allowed_file(u.filename)
    \/ u.image.size > MAX_FILE_SIZE

\* C11: a single-document endpoint answers an upload with a missing
\* filename, a disallowed extension or a size above MAX_FILE_SIZE with
\* HTTP 400, and makes no pipeline run for it.
C11_BadUpload400 ==
    (single # None /\ RejectedUpload(single.file)) =>
        /\ runs = 0
        /\ single.pc # "extracting"
        /\ single.response # None => single.response.http = 400

\* The validator has been applied to the data
Validated == validation # None /\ validation.pc # "input"

\* C12: validate_extracted_data never fails: for every field mapping the
\* parser can return (number field absent, null, empty, whitespace only,
\* malformed, or not a string) and either document type it returns a
\* mapping and raises nothing.
C12_ValidatorTotal ==
    Validated =>
        /\ ~validation.once.raised
        /\ validation.once.val.t = "obj"
        /\ HasKey(validation.once.val.m, ValidField(validation.document_type))

\* C13: the validator is idempotent: applied to its own output, with the
\* same document type, it returns that output again, also for number
\* strings with spaces, hyphens and other whitespace.
C13_ValidatorIdempotent ==
    (validation # None /\ validation.pc = "revalidated") =>
        validation.twice = validation.once

\* The validator returned a mapping for a PAN document
PanValidated ==
    Validated /\ validation.document_type = "pan" /\ ~validation.once.raised

\* Exactly five upper-case letters, four digits, one upper-case letter
PanRule(s) ==
    /\ Len(s) = 10
    /\ \A i \in {1, 2, 3, 4, 5, 10} : s[i] \in UpperLetters
    /\ \A i \in 6 .. 9 : s[i] \in Digits

AadhaarRule(s) ==
    LET cleaned == PyRemove(PyRemove(PyStrip(s), " "), "-")
    IN  /\ Len(cleaned) = 12
        /\ \A i \in 1 .. 12 : cleaned[i] \in Digits \cup {"X"}
        /\ \E i \in 1 .. 12 : cleaned[i] # "X"

\* The validator returned a mapping for an Aadhaar document that holds a
\* number string
AadhaarValidated ==
    /\ Validated
    /\ validation.document_type = "aadhaar"
    /\ ~validation.once.raised
    /\ HasNumberString(validation)

\* C15: aadhaar_valid, and validate_aadhaar_format, are true exactly when
\* the value, trimmed and without spaces and hyphens, is twelve characters,
\* each a digit or the mask character X, and not twelve X.
C15_AadhaarRule ==
    /\ AadhaarValidated =>
          GetKey(validation.once.val.m, <<"aadhaar_valid">>)
              = JBool(AadhaarRule(RawNumber(validation)))
    /\ (/\ validation # None
        /\ validation.document_type = "aadhaar"
        /\ validation.format # None) =>
          validation.format = JBool(AadhaarRule(RawNumber(validation)))

\* Three groups of four characters that are no whitespace and no hyphen,
\* with one space between them.
ThreeGroupsOfFour(s) ==
    /\ Len(s) = 14
    /\ s[5] = " " /\ s[10] = " "
    /\ \A i \in (1 .. 14) \ {5, 10} : s[i] \notin Whitespace \cup {"-"}

\* C16: whenever the validator sets aadhaar_valid = true, the
\* aadhaar_number it returns is the twelve cleaned characters in three
\* groups of four separated by single spaces: fourteen characters, no
\* other whitespace, no hyphen.
C16_ValidAadhaarFormatted ==
    (AadhaarValidated
        /\ GetKey(validation.once.val.m, <<"aadhaar_valid">>) = JBool(TRUE)) =>
        /\ ThreeGroupsOfFour(GetKey(validation.once.val.m, <<"aadhaar_number">>).s)
        /\ PyRemove(GetKey(validation.once.val.m, <<"aadhaar_number">>).s, " ")
             = PyRemove(PyRemove(PyStrip(RawNumber(validation)), " "), "-")

\* C17: the parser round-trips: for every JSON object O, the parser
\* returns O for json.dumps(O), and for prose followed by a fenced json
\* block that holds json.dumps(O), also when string values of O contain
\* fence markers or braces.
C17_ParserRoundTrip ==
    (parsing # None /\ parsing.out # None
        /\ parsing.layout \in {"direct", "fenced"}) =>
        parsing.out = Return(parsing.O)

\* The call reached the parser with a text, and the parser recovered no
\* JSON from it.
ParseFailed ==
    /\ Called
    /\ get_extraction_prompt(call.document_type) # ""
    /\ call.image.exists /\ call.image.opens
    /\ extractor.available /\ extractor.model_ready
    /\ call.image.reply.kind = "dict"
    /\ AnswerText(call.image.reply).t = "str"
    /\ AnswerText(call.image.reply).s # <<>>
    /\ _parse_json_response(AnswerText(call.image.reply).s).raised

\* C18: whenever no JSON can be recovered from the model's answer, on any
\* of the parser's failure paths, the error of the result carries a
\* preview of the answer: its first 500 characters, and no more of it.
C18_ParseErrorPreview ==
    ParseFailed =>
        /\ ~call.outcome.raised
        /\ call.outcome.val.status = "error"
        /\ PyContains(call.outcome.val.error,
                      PySlice(AnswerText(call.image.reply).s, 0, PREVIEW_CHARS))
        /\ Len(AnswerText(call.image.reply).s) > PREVIEW_CHARS =>
              ~PyContains(call.outcome.val.error,
                          PySlice(AnswerText(call.image.reply).s, 0, PREVIEW_CHARS + 1))

\* C19: no error string of a result returned by extract_from_image holds
\* a raw stack trace, whichever step failed: an empty answer of the model,
\* a parse failure, an exception of the model.
C19_NoStackTrace ==
    (Called /\ ~call.outcome.raised /\ call.outcome.val.status = "error") =>
        \A i \in 1 .. Len(call.outcome.val.error) :
            call.outcome.val.error[i] # TRACEBACK

\* The data of the call after the model call and the validation
Extracted ==
    IF settings.VALIDATE
    THEN validate_extracted_data(_call_moondream_api(call.image).val,
                                 call.document_type)
    ELSE _call_moondream_api(call.image)

\* Every step of the call before "Save extracted data" succeeds
ReachesSave ==
    /\ get_extraction_prompt(call.document_type) # ""
    /\ call.image.exists
    /\ ~_call_moondream_api(call.image).raised
    /\ ~Extracted.raised

\* C20: persisting a result cannot change the outcome: a call whose steps
\* all succeed returns its success result whether or not the write to the
\* output folder fails, the failure of the write is never raised to the
\* caller, and a result of status error is never persisted.
C20_SaveCannotChangeOutcome ==
    Called =>
        /\ ~call.outcome.raised
        /\ ReachesSave =>
              call.outcome.val =
                  [status |-> "success",
                   document_type |-> call.document_type,
                   data |-> Extracted.val,
                   metadata |-> [model_version |-> "moondream2",
                                 original_filename |-> call.original_filename,
                                 file_size_bytes |-> call.image.size]]
        /\ call.outcome.val.status = "error" => output_folder = {}
        /\ output_folder # {} => disk = "ok" /\ settings.SAVE_EXTRACTED_DATA

\* A call that is to persist its result returned success although the
\* output folder could not be written, and nothing was written.
C20_Witness ==
    /\ Called
    /\ disk = "full"
    /\ settings.SAVE_EXTRACTED_DATA
    /\ ~call.outcome.raised
    /\ call.outcome.val.status = "success"
    /\ output_folder = {}

\* C21: the pipeline fails fast and in order: the model is never queried
\* for a call whose document type has no prompt or whose image file does
\* not exist, and the prompt is checked before the image, so that a call
\* with both defects reports the unknown document type.
C21_FailFast ==
    Called =>
        /\ (get_extraction_prompt(call.document_type) = "" \/ ~call.image.exists) =>
              /\ queries = 0
              /\ ~call.outcome.raised
              /\ call.outcome.val.status = "error"
        /\ get_extraction_prompt(call.document_type) = "" =>
              call.outcome.val.error
                  = <<"Unknown document type: ", call.document_type>>
        /\ (get_extraction_prompt(call.document_type) # "" /\ ~call.image.exists) =>
              call.outcome.val.error = <<"Image file not found: ", "image_path">>

\* A call with both defects, on a model that is ready, reported the
\* unknown document type without a query of the model.
C21_Witness ==
    /\ Called
    /\ call.document_type = "passport"
    /\ ~call.image.exists
    /\ extractor.model_ready
    /\ queries = 0
    /\ call.outcome.val.error = <<"Unknown document type: ", "passport">>

\* The four strategies, each on its own: the whole text; the content
\* between a json marker and the next fence; the content between the
\* first and the second fence; the text from the first "{" to the last "}".
\* A strategy whose markers are not in the text recovers nothing.
NoJson == Raise("JSONDecodeError", <<"Expecting value">>)

WholeText(text) == json_loads(text)

JsonBlock(text) ==
    LET start == PyFind(text, <<FENCE, "json">>, 0) + 2
    IN  IF PyFind(text, <<FENCE, "json">>, 0) < 0 \/ PyFind(text, <<FENCE>>, start) < 0
        THEN NoJson
        ELSE json_loads(PyStrip(PySlice(text, start, PyFind(text, <<FENCE>>, start))))

PlainBlock(text) ==
    LET start == PyFind(text, <<FENCE>>, 0) + 1
    IN  IF PyFind(text, <<FENCE>>, 0) < 0 \/ PyFind(text, <<FENCE>>, start) < 0
        THEN NoJson
        ELSE json_loads(PyStrip(PySlice(text, start, PyFind(text, <<FENCE>>, start))))

Braces(text) ==
    IF ~PyContains(text, <<"{">>) \/ ~PyContains(text, <<"}">>) THEN NoJson
    ELSE json_loads(PySlice(text, PyFind(text, <<"{">>, 0), PyRFind(text, <<"}">>) + 1))

\* The first of the four that succeeds
FirstSuccess(text) ==
    IF ~WholeText(text).raised THEN WholeText(text)
    ELSE IF ~JsonBlock(text).raised THEN JsonBlock(text)
    ELSE IF ~PlainBlock(text).raised THEN PlainBlock(text)
    ELSE Braces(text)

Parsed == parsing # None /\ parsing.out # None

\* C22: the parser tries its four strategies in order and the first
\* success wins; it fails only when none of them yields valid JSON, and
\* always on a text without braces and fences that is no JSON itself.
C22_FirstSuccessWins ==
    Parsed =>
        /\ parsing.out.raised = FirstSuccess(parsing.response_text).raised
        /\ ~parsing.out.raised =>
              parsing.out.val = FirstSuccess(parsing.response_text).val
        /\ parsing.layout = "prose" => parsing.out.raised

\* C23: whenever the parser returns instead of failing, what it returns
\* is a JSON object; a text whose JSON payload is an array, a number, a
\* string, a boolean or null is never a successful parse.
C23_ParsedIsObject ==
    (Parsed /\ ~parsing.out.raised) => parsing.out.val.t = "obj"

\* C24: while the model call of an extraction is in progress, an
\* unrelated request, here a health check, can still be handled: the
\* step does not block the request-handling loop.
C24_LoopNeverBlocked ==
    (single # None /\ single.pc = "querying" /\ health < MaxHealthChecks) =>
        ENABLED HealthCheck

\* C25: with persistence on and the output folder writable, every
\* successful extraction leaves a file of its own: after k successful
\* extractions, also of files of one basename within one second, the
\* output folder holds k files.
C25_OneFilePerSuccess ==
    (Called /\ settings.SAVE_EXTRACTED_DATA /\ disk = "ok"
        /\ ~call.outcome.raised /\ call.outcome.val.status = "success") =>
        Cardinality(output_folder) = runs

\* C26: in concurrent batch mode every result is attributed to the right
\* upload: the original_filename in the metadata of the result of a file
\* (success, extraction error or staging error) is that file's own
\* filename, in whatever order the save tasks and the extraction tasks
\* complete.
C26_RightAttribution ==
    (Finished /\ request = "extract_async") =>
        \A i \in 1 .. Len(FinalResults) :
            FinalResults[i].metadata.original_filename = FinalSrc[i].filename

\* No request is being served: none has come in yet, or the one that came
\* has been answered (result, error response or exception alike).
RequestOver ==
    /\ request = "none"
    /\ single # None => single.pc \in {"received", "done"}

\* C27: with DELETE_UPLOADED_FILES on, once a single-document or batch
\* request is over, however it ended, none of the files it staged is left
\* in the upload folder; and whatever the setting, a failed
\* save_upload_file leaves no partial file: every file in the folder is
\* of an upload whose save succeeded.
C27_NoStagedFileRemains ==
    /\ (settings.DELETE_UPLOADED_FILES /\ RequestOver) => upload_folder = EmptyBag
    /\ \A file_path \in BagToSet(upload_folder) :
            ~save_upload_file(file_path.upload).raised

\* A batch that staged a file and failed to stage another has been
\* answered, and the folder is empty again.
C27_Witness ==
    /\ settings.DELETE_UPLOADED_FILES
    /\ request = "none"
    /\ \E ep \in Endpoints : responses[ep] # None
    /\ file_paths # <<>>
    /\ Len(file_paths) < Len(batch.files)
    /\ upload_folder = EmptyBag

====
